---------------------------- MODULE Spec2Model ----------------------------
(***************************************************************************)
(* A model of the IFC alignment viewer: the curve evaluators, the curve    *)
(* walker, the vertical profile evaluator, the 3D composer (np.interp),    *)
(* the analysis tables of utils/visualizer.py and the visualize request    *)
(* handler of app.py.                                                      *)
(*                                                                         *)
(* Numbers.  The program computes with IEEE doubles.  The model computes   *)
(* with fixed-point numbers: the integer v stands for the real v / Unit.   *)
(* A product or a quotient of two such numbers is rescaled (Mul, Div) and  *)
(* rounded down, the model's counterpart of floating-point rounding.  The  *)
(* values a float division by zero produces under numpy (NaN, +Inf, -Inf)  *)
(* are modelled by the records NaN and Inf(s); values that can carry them  *)
(* (elevations) are records built by Fin, NaN and Inf.                     *)
(***************************************************************************)
EXTENDS Integers, Sequences, FiniteSets, TLC

VARIABLES
    pc,              \* control point of the request being handled
    session_data,    \* app.py:24, the process-wide session dictionary
    alignment_id,    \* the <alignment_id> path parameter, a string of characters
    alignment,       \* create_visualization: the entity by_id returned
    base_curve,      \* base_rep.Items[0].Segments
    gradient_curve,  \* gradient_rep.Items[0].Segments
    seg_idx,         \* position of the running for loop (1-based)
    all_points,      \* _evaluate_base_curve: all_points
    distances,       \* _evaluate_base_curve: distances
    current_dist,    \* _evaluate_base_curve: current_dist
    vert_distances,  \* _evaluate_vertical_profile: distances
    elevations,      \* _evaluate_vertical_profile: elevations
    is_civil3d,      \* _evaluate_vertical_profile: is_civil3d, per segment walked
    base_elevations, \* create_visualization: base_elevations
    base_df,         \* _create_analysis_tables: base_data
    vert_df,         \* _create_analysis_tables: vert_data
    cumulative_dist, \* _create_analysis_tables: cumulative_dist
    summary_df,      \* _create_analysis_tables: summary_data
    upload_folder,   \* the files saved to app.config['UPLOAD_FOLDER'], by name
    output_folder,   \* the documents written to app.config['OUTPUT_FOLDER']
    response         \* the JSON response of visualize_alignment

vars == <<pc, session_data, alignment_id, alignment, base_curve, gradient_curve,
          seg_idx, all_points, distances, current_dist, vert_distances,
          elevations, is_civil3d, base_elevations, base_df, vert_df,
          cumulative_dist, summary_df, upload_folder, output_folder, response>>

---------------------------------------------------------------------------
(* Bounds of the model. *)

\* Resolution of the fixed-point numbers: the integer Unit stands for 1.0.
Unit == 1000
\* Longest base composite curve drawn by InitBase.
MaxBaseSegs == 3
\* Longest gradient composite curve drawn by InitProfile.
MaxVertSegs == 2

(* Program constants. *)

\* _evaluate_line_segment / _evaluate_circle_segment: num_points=50
NumPoints == 50
\* _evaluate_vertical_profile, IfcLine branch: num_points = 50
VertLinePoints == 50
\* _evaluate_vertical_profile, IfcPolynomialCurve branch: num_points = 100
PolyPoints == 100
\* np.interp's binary_search_with_guess: LIKELY_IN_CACHE_SIZE
LikelyInCacheSize == 8

---------------------------------------------------------------------------
(* Fixed-point arithmetic. *)

Abs(x) == IF x < 0 THEN -x ELSE x

\* Quotient of two integers rounded down; b # 0.
FloorDiv(a, b) == IF b > 0 THEN a \div b ELSE (-a) \div (-b)

\* float * float
Mul(a, b) == FloorDiv(a * b, Unit)

\* float / float, b # 0
Div(a, b) == FloorDiv(a * Unit, b)

\* np.sqrt of a non-negative integer, rounded down.
RECURSIVE SqrtSearch(_, _, _)
SqrtSearch(n, lo, hi) ==
    IF lo >= hi THEN lo
    ELSE LET mid == (lo + hi + 1) \div 2
         IN IF mid * mid <= n THEN SqrtSearch(n, mid, hi)
                              ELSE SqrtSearch(n, lo, mid - 1)

Sqrt(n) == SqrtSearch(n, 0, IF n < 46340 THEN n ELSE 46340)

\* pi in fixed point
Pi == (3142 * Unit) \div 1000

\* np.sin of an angle in [0, pi], by Bhaskara's rational approximation
\* 16 x (pi - x) / (5 pi^2 - 4 x (pi - x)).
SinHalfTurn(x) ==
    LET p == x * (Pi - x)
        den == (5 * Pi * Pi - 4 * p) \div Unit
    IN (16 * p) \div den

\* np.sin, any angle.
Sin(a) ==
    LET r == a % (2 * Pi)
    IN IF r <= Pi THEN SinHalfTurn(r) ELSE -SinHalfTurn(r - Pi)

\* np.cos
Cos(a) == Sin(a + Pi \div 2)

\* np.linspace(0, stop, num)[i], i in 1..num: evenly spaced, the last one stop.
Linspace(stop, num, i) == FloorDiv(stop * (i - 1), num - 1)

---------------------------------------------------------------------------
(* IFC entities.  A segment (IfcCurveSegment) is a record:                 *)
(*   kind    ParentCurve.is_a()                                            *)
(*   loc     Placement.Location.Coordinates                                *)
(*   ref     Placement.RefDirection.DirectionRatios, <<>> when the         *)
(*           placement has no RefDirection                                 *)
(*   start   SegmentStart.wrappedValue                                     *)
(*   length  SegmentLength.wrappedValue                                    *)
(*   radius  ParentCurve.Radius (IfcCircle)                                *)
(*   coeffs  ParentCurve.CoefficientsY (IfcPolynomialCurve)                *)

Seg(kind, loc, ref, length, radius, coeffs) ==
    [kind |-> kind, loc |-> loc, ref |-> ref, start |-> 0, length |-> length,
     radius |-> radius, coeffs |-> coeffs]

\* hasattr(placement, 'RefDirection') and placement.RefDirection, else (1.0, 0.0)
RefDirection(segment) ==
    IF segment.ref # <<>> THEN segment.ref ELSE <<Unit, 0>>

\* The rotation and translation of one local point (lines 93-94, 122-123).
GlobalPoint(loc, ref_dir, pt) ==
    LET cos_angle == ref_dir[1]
        sin_angle == ref_dir[2]
    IN <<loc[1] + Mul(pt[1], cos_angle) - Mul(pt[2], sin_angle),
         loc[2] + Mul(pt[1], sin_angle) + Mul(pt[2], cos_angle)>>

\* _evaluate_line_segment
EvaluateLineSegment(segment) ==
    LET ref_dir == RefDirection(segment)
    IN [i \in 1..NumPoints |->
           GlobalPoint(segment.loc, ref_dir,
                       <<Linspace(segment.length, NumPoints, i), 0>>)]

\* _evaluate_circle_segment; the radius is not 0 (length / radius raises
\* ZeroDivisionError otherwise, see BaseCircleZeroRadius).
EvaluateCircleSegment(segment) ==
    LET ref_dir == RefDirection(segment)
        radius == segment.radius
        length == segment.length
        total_angle == IF length > 0 THEN Div(length, radius)
                                     ELSE Div(-length, radius)
        LocalPoint(a) ==
            IF length > 0
            THEN <<Mul(radius, Sin(a)), Mul(radius, Unit - Cos(a))>>
            ELSE <<Mul(radius, Sin(a)), -Mul(radius, Unit - Cos(a))>>
    IN [i \in 1..NumPoints |->
           GlobalPoint(segment.loc, ref_dir,
                       LocalPoint(Linspace(total_angle, NumPoints, i)))]

---------------------------------------------------------------------------
(* _evaluate_base_curve: the curve walker. *)

\* Hypot with the squares and the root forgotten: a signed increment.
HypotSigned(dx, dy) == dx + dy

\* np.sqrt(dx**2 + dy**2)
Hypot(dx, dy) == Sqrt(dx * dx + dy * dy)

\* DropFirst without the drop: every segment keeps its first sample.
DropFirstNever(acc_points, points) == points

\* if len(all_points) > 0: points = points[1:]
DropFirst(acc_points, points) ==
    IF Len(acc_points) > 0 THEN Tail(points) ELSE points

\* f[lo] + ... + f[hi]
RECURSIVE SumRange(_, _, _)
SumRange(f, lo, hi) ==
    IF lo > hi THEN 0
    ELSE IF lo = hi THEN f[lo]
    ELSE LET mid == (lo + hi) \div 2
         IN SumRange(f, lo, mid) + SumRange(f, mid + 1, hi)

\* for pt in points: ... (lines 150-156).  st is the record of all_points,
\* distances and current_dist.  The k-th pass appends points[k], adds to
\* current_dist the distance from the point before it (nothing for the very
\* first point of the curve) and appends current_dist: the k-th distance
\* appended is current_dist plus the first k increments.
AppendPoints(st, points) ==
    LET n == Len(st.all_points)
        joined == st.all_points \o points
        incs == <<>> \o [k \in 1..Len(points) |->
                    IF n + k > 1
                    THEN Hypot(joined[n + k][1] - joined[n + k - 1][1],
                               joined[n + k][2] - joined[n + k - 1][2])
                    ELSE 0]
    IN [all_points |-> joined,
        distances |-> st.distances
                      \o [k \in 1..Len(points) |->
                             st.current_dist + SumRange(incs, 1, k)],
        current_dist |-> st.current_dist + SumRange(incs, 1, Len(points))]

\* Whether the walker evaluates the segment (lines 140-145).
IsBaseKind(kind) == kind \in {"IfcLine", "IfcCircle"}

\* WalkSegment with the else: continue branch lost: a segment of any other
\* kind is evaluated as a line.
WalkSegmentNoSkip(st, segment) ==
    LET points == IF segment.kind = "IfcCircle" /\ segment.radius # 0
                  THEN EvaluateCircleSegment(segment)
                  ELSE EvaluateLineSegment(segment)
        acc == AppendPoints([all_points |-> st.all_points,
                             distances |-> st.distances,
                             current_dist |-> st.current_dist],
                            DropFirst(st.all_points, <<>> \o points))
    IN IF segment.kind = "IfcCircle" /\ segment.radius = 0
       THEN [st EXCEPT !.err = "float division by zero"]
       ELSE [err |-> "", all_points |-> acc.all_points,
             distances |-> acc.distances, current_dist |-> acc.current_dist]

\* One pass of the loop body (lines 135-156).  err is "" unless the pass raised.
WalkSegment(st, segment) ==
    IF ~IsBaseKind(segment.kind) THEN st
    ELSE IF segment.kind = "IfcCircle" /\ segment.radius = 0
    THEN [st EXCEPT !.err = "float division by zero"]
    ELSE LET points == IF segment.kind = "IfcLine"
                       THEN EvaluateLineSegment(segment)
                       ELSE EvaluateCircleSegment(segment)
             acc == AppendPoints([all_points |-> st.all_points,
                                  distances |-> st.distances,
                                  current_dist |-> st.current_dist],
                                 DropFirst(st.all_points, <<>> \o points))
         IN [err |-> "", all_points |-> acc.all_points,
             distances |-> acc.distances, current_dist |-> acc.current_dist]

WalkerState ==
    [err |-> "", all_points |-> all_points, distances |-> distances,
     current_dist |-> current_dist]

\* The whole of _evaluate_base_curve on a list of segments.
RECURSIVE WalkFrom(_, _, _)
WalkFrom(st, segments, k) ==
    IF k > Len(segments) \/ st.err # "" THEN st
    ELSE LET next == WalkSegment(st, segments[k])
         IN WalkFrom(next, segments, k + 1)

EvaluateBaseCurve(segments) ==
    WalkFrom([err |-> "", all_points |-> <<>>, distances |-> <<>>,
              current_dist |-> 0], segments, 1)

---------------------------------------------------------------------------
(* IEEE values.  An elevation is Fin(v), NaN or Inf(s) with s in {1, -1}:  *)
(* numpy divides by zero without raising (it warns), giving nan for 0/0    *)
(* and an infinity otherwise.                                              *)

Fin(v) == [cls |-> "fin", val |-> v]
NaN == [cls |-> "nan", val |-> 0]
Inf(s) == [cls |-> "inf", val |-> s]

IsFinite(a) == a.cls = "fin"

Sign(v) == IF v < 0 THEN -1 ELSE 1

FNeg(a) == IF a.cls = "nan" THEN a ELSE [a EXCEPT !.val = -a.val]

FAdd(a, b) ==
    IF a.cls = "nan" \/ b.cls = "nan" THEN NaN
    ELSE IF a.cls = "inf" /\ b.cls = "inf"
    THEN IF a.val = b.val THEN a ELSE NaN
    ELSE IF a.cls = "inf" THEN a
    ELSE IF b.cls = "inf" THEN b
    ELSE Fin(a.val + b.val)

FSub(a, b) == FAdd(a, FNeg(b))

FMul(a, b) ==
    IF a.cls = "nan" \/ b.cls = "nan" THEN NaN
    ELSE IF a.cls = "inf" \/ b.cls = "inf"
    THEN IF a.val = 0 \/ b.val = 0 THEN NaN
         ELSE Inf(Sign(a.val) * Sign(b.val))
    ELSE Fin(Mul(a.val, b.val))

FDiv(a, b) ==
    IF a.cls = "nan" \/ b.cls = "nan" THEN NaN
    ELSE IF a.cls = "inf"
    THEN IF b.cls = "inf" THEN NaN ELSE Inf(a.val * Sign(b.val))
    ELSE IF b.cls = "inf" THEN Fin(0)
    ELSE IF b.val = 0
    THEN IF a.val = 0 THEN NaN ELSE Inf(Sign(a.val))
    ELSE Fin(Div(a.val, b.val))

---------------------------------------------------------------------------
(* _evaluate_vertical_profile *)

\* c1 = coeffs[1] if len(coeffs) > 1 else 0; likewise c2 (i is 0-based)
Coefficient(coeffs, i) == IF Len(coeffs) > i THEN coeffs[i + 1] ELSE 0

\* is_civil3d = (abs(c0) > 1.0 or abs(c1) > 0.001), line 194
ProfileIsCivil3d(c0, c1) == Abs(c0) > Unit \/ Abs(c1) > Unit \div 1000

\* c0 + c1 * u + c2 * u * u
Polynomial(c0, c1, c2, u) == c0 + Mul(c1, u) + Mul(Mul(c2, u), u)

\* The IfcLine branch (lines 178-183); the placement has a RefDirection.
VerticalLineSamples(segment) ==
    LET seg_start_dist == segment.loc[1]
        seg_start_elev == segment.loc[2]
        T(i) == Linspace(segment.length, VertLinePoints, i)
    IN [distances |-> <<>> \o [i \in 1..VertLinePoints |->
                                  seg_start_dist + T(i)],
        elevations |-> <<>> \o [i \in 1..VertLinePoints |->
            FAdd(Fin(seg_start_elev),
                 FDiv(FMul(Fin(T(i)), Fin(segment.ref[2])),
                      Fin(segment.ref[1])))]]

\* The IfcPolynomialCurve branch (lines 186-202); coeffs is not empty.
VerticalPolynomialSamples(segment) ==
    LET seg_start_dist == segment.loc[1]
        seg_start_elev == segment.loc[2]
        c0 == segment.coeffs[1]
        c1 == Coefficient(segment.coeffs, 1)
        c2 == Coefficient(segment.coeffs, 2)
        U(i) == Linspace(segment.length, PolyPoints, i)
    IN [distances |-> <<>> \o [i \in 1..PolyPoints |-> seg_start_dist + U(i)],
        elevations |-> <<>> \o [i \in 1..PolyPoints |->
            IF ProfileIsCivil3d(c0, c1)
            THEN Fin(Polynomial(c0, c1, c2, U(i)))
            ELSE Fin(seg_start_elev + Polynomial(c0, c1, c2, U(i)))]]

\* One pass of the loop body (lines 166-202): the samples the segment
\* appends, the value is_civil3d takes ("" when the pass does not set it),
\* and err, "" unless the pass raised.
VerticalSegment(segment) ==
    LET none == [err |-> "", distances |-> <<>>, elevations |-> <<>>,
                 is_civil3d |-> ""]
    IN IF segment.length = 0 THEN none
       ELSE IF segment.kind = "IfcLine"
       THEN IF segment.ref = <<>>
            THEN [none EXCEPT !.err =
                     "'NoneType' object has no attribute 'DirectionRatios'"]
            ELSE [none EXCEPT
                     !.distances = VerticalLineSamples(segment).distances,
                     !.elevations = VerticalLineSamples(segment).elevations]
       ELSE IF segment.kind = "IfcPolynomialCurve"
       THEN IF segment.coeffs = <<>>
            THEN [none EXCEPT !.err = "tuple index out of range"]
            ELSE [none EXCEPT
                     !.distances = VerticalPolynomialSamples(segment).distances,
                     !.elevations = VerticalPolynomialSamples(segment).elevations,
                     !.is_civil3d =
                         IF ProfileIsCivil3d(segment.coeffs[1],
                                             Coefficient(segment.coeffs, 1))
                         THEN "True" ELSE "False"]
       ELSE none

---------------------------------------------------------------------------
(* np.interp(x, xp, fp), line 50, as numpy computes it.  Indices are       *)
(* 0-based as in numpy; At reads an array at a 0-based index.              *)

At(arr, i) == arr[i + 1]

\* for (i = i0; i < len && key >= arr[i]; i++); return i - 1;
LinearSearch(key, arr, i0) ==
    LET len == Len(arr)
        stops == {i \in i0..(len - 1) : key < At(arr, i)}
    IN IF stops = {} THEN len - 1
       ELSE (CHOOSE i \in stops : \A k \in stops : i <= k) - 1

\* A search that stops at the first of equal keys (key > arr[imid]).
RECURSIVE BisectLeft(_, _, _, _)
BisectLeft(key, arr, imin, imax) ==
    IF imin >= imax THEN imin - 1
    ELSE LET imid == imin + (imax - imin) \div 2
         IN IF key > At(arr, imid) THEN BisectLeft(key, arr, imid + 1, imax)
                                   ELSE BisectLeft(key, arr, imin, imid)

\* while (imin < imax) { imid = imin + ((imax - imin) >> 1);
\*   if (key >= arr[imid]) imin = imid + 1; else imax = imid; }
\* return imin - 1;
RECURSIVE Bisect(_, _, _, _)
Bisect(key, arr, imin, imax) ==
    IF imin >= imax THEN imin - 1
    ELSE LET imid == imin + (imax - imin) \div 2
         IN IF key >= At(arr, imid) THEN Bisect(key, arr, imid + 1, imax)
                                    ELSE Bisect(key, arr, imin, imid)

\* binary_search_with_guess: the index j with arr[j] <= key < arr[j+1] when
\* arr is sorted, -1 below arr[0], len above arr[len-1].
BinarySearchWithGuess(key, arr, guess0) ==
    LET len == Len(arr)
        g1 == IF guess0 > len - 3 THEN len - 3 ELSE guess0
        guess == IF g1 < 1 THEN 1 ELSE g1
    IN IF key > At(arr, len - 1) THEN len
       ELSE IF key < At(arr, 0) THEN -1
       ELSE IF len <= 4 THEN LinearSearch(key, arr, 1)
       ELSE IF key < At(arr, guess)
       THEN IF key < At(arr, guess - 1)
            THEN Bisect(key, arr,
                        IF guess > LikelyInCacheSize
                           /\ key >= At(arr, guess - LikelyInCacheSize)
                        THEN guess - LikelyInCacheSize ELSE 0,
                        guess - 1)
            ELSE guess - 1
       ELSE IF key < At(arr, guess + 1) THEN guess
       ELSE IF key < At(arr, guess + 2) THEN guess + 1
       ELSE Bisect(key, arr, guess + 2,
                   IF guess < len - LikelyInCacheSize - 1
                      /\ key < At(arr, guess + LikelyInCacheSize)
                   THEN guess + LikelyInCacheSize ELSE len)

\* One element of the result: the search from the guess j, then the value.
\* xp holds at least one sample.
InterpOne(x, xp, fp, j0) ==
    LET lenxp == Len(xp)
        j == IF lenxp = 1 THEN j0 ELSE BinarySearchWithGuess(x, xp, j0)
        slope == FDiv(FSub(At(fp, j + 1), At(fp, j)),
                      Fin(At(xp, j + 1) - At(xp, j)))
        first == FAdd(FMul(slope, Fin(x - At(xp, j))), At(fp, j))
        second == FAdd(FMul(slope, Fin(x - At(xp, j + 1))), At(fp, j + 1))
    IN [j |-> j,
        val |-> IF lenxp = 1 THEN At(fp, 0)
                ELSE IF j = -1 THEN At(fp, 0)
                ELSE IF j = lenxp THEN At(fp, lenxp - 1)
                ELSE IF j = lenxp - 1 THEN At(fp, j)
                ELSE IF At(xp, j) = x THEN At(fp, j)
                ELSE IF first.cls # "nan" THEN first
                ELSE IF second.cls # "nan" THEN second
                ELSE IF At(fp, j) = At(fp, j + 1) THEN At(fp, j)
                ELSE second]

\* The loop over x[lo..hi] (1-based), the guess carried from one element
\* to the next.  The range is halved: the left half is evaluated first and
\* hands its last index to the right half.
RECURSIVE InterpRange(_, _, _, _, _, _)
InterpRange(x, xp, fp, lo, hi, j0) ==
    IF lo > hi THEN [out |-> <<>>, j |-> j0]
    ELSE IF lo = hi
    THEN LET r == InterpOne(x[lo], xp, fp, j0)
         IN [out |-> <<r.val>>, j |-> r.j]
    ELSE LET mid == (lo + hi) \div 2
             left == InterpRange(x, xp, fp, lo, mid, j0)
             right == InterpRange(x, xp, fp, mid + 1, hi, left.j)
         IN [out |-> left.out \o right.out, j |-> right.j]

\* np.interp(x, xp, fp); xp is not empty (numpy raises ValueError if it is).
Interp(x, xp, fp) == InterpRange(x, xp, fp, 1, Len(x), 0).out

---------------------------------------------------------------------------
(* Responses and exceptions. *)

NoResponse ==
    [status |-> 0, keys |-> {}, error |-> "", html_path |-> <<>>,
     summary |-> <<>>, base_segments |-> <<>>, vertical_segments |-> <<>>]

\* jsonify({'error': ...}), 400 (app.py:81)
Rejected(msg) ==
    [NoResponse EXCEPT !.status = 400, !.keys = {"error"}, !.error = msg]

\* except Exception as e: jsonify({'error': str(e), 'trace': ...}), 500
\* (app.py:100-102)
Faulted(msg) ==
    [NoResponse EXCEPT !.status = 500, !.keys = {"error", "trace"},
                       !.error = msg]

\* An exception raised inside create_visualization: it leaves the method and
\* is caught by visualize_alignment.
Raise(msg) ==
    /\ pc' = "responded"
    /\ response' = Faulted(msg)

---------------------------------------------------------------------------
(* The IFC file and the entities a request reads.  A file is a sequence of *)
(* entities; an entity is a record:                                        *)
(*   id                  the STEP id, entity.id()                          *)
(*   type                entity.is_a()                                     *)
(*   Name                a sequence of characters, <<>> when absent        *)
(*   has_representation  Representation is not None                        *)
(*   Representations     Representation.Representations, each a record of  *)
(*                       RepresentationType and Items (a sequence of       *)
(*                       curves, a curve being its sequence of Segments)   *)

\* Python's int(s) for a sequence of characters: an optional sign and one
\* or more decimal digits (surrounding blanks and underscores are left out).
Digits == <<"0", "1", "2", "3", "4", "5", "6", "7", "8", "9">>

IsDigit(c) == \E d \in 1..Len(Digits) : Digits[d] = c

DigitValue(c) == (CHOOSE d \in 1..Len(Digits) : Digits[d] = c) - 1

Unsigned(s) ==
    IF s # <<>> /\ s[1] \in {"+", "-"} THEN Tail(s) ELSE s

IsIntLiteral(s) ==
    /\ Unsigned(s) # <<>>
    /\ \A i \in 1..Len(Unsigned(s)) : IsDigit(Unsigned(s)[i])

RECURSIVE DigitsValue(_, _)
DigitsValue(s, n) ==
    IF n = 0 THEN 0 ELSE 10 * DigitsValue(s, n - 1) + DigitValue(s[n])

IntValue(s) ==
    IF s[1] = "-" THEN -DigitsValue(Unsigned(s), Len(Unsigned(s)))
    ELSE DigitsValue(Unsigned(s), Len(Unsigned(s)))

\* A stored file: ifc tells whether ifcopenshell.open can read it, entities
\* is what it then holds.
Stored(file) == [ifc |-> TRUE, entities |-> file]

\* ifcopenshell.open(filepath): the entities stored under the path.
IfcFile == upload_folder[session_data.current_file].entities

\* The positions in the file of the entities with STEP id n.
ById(file, n) == {i \in 1..Len(file) : file[i].id = n}

\* The last representation of the given type in the loop of lines 33-37,
\* 0 when there is none.
LastOfType(reps, type) ==
    LET found == {i \in 1..Len(reps) : reps[i].RepresentationType = type}
    IN IF found = {} THEN 0
       ELSE CHOOSE i \in found : \A k \in found : k <= i

\* IFCProcessor.get_alignments (ifc_processor.py:16-47)
GetAlignments(file) ==
    LET Info(e) ==
            LET has_base == e.has_representation
                            /\ LastOfType(e.Representations, "Curve2D") # 0
                has_gradient == e.has_representation
                                /\ LastOfType(e.Representations, "Curve3D") # 0
            IN [id |-> e.id,
                global_id |-> e.GlobalId,
                name |-> IF e.Name # <<>> THEN e.Name
                         ELSE <<"Alignment ", e.id>>,
                type |-> e.PredefinedType,
                has_base_curve |-> has_base,
                has_gradient_curve |-> has_gradient,
                is_complete |-> has_base /\ has_gradient]
        IsAlignment(e) == e.type = "IfcAlignment"
    IN [i \in 1..Len(SelectSeq(file, IsAlignment)) |->
           Info(SelectSeq(file, IsAlignment)[i])]

---------------------------------------------------------------------------
(* visualize_alignment (app.py:77-102) and the head of                     *)
(* create_visualization (visualizer.py:21-43).  The text of an error that  *)
(* quotes the id stands without the id.                                    *)

Locals ==
    <<alignment, base_curve, gradient_curve, seg_idx, all_points, distances,
      current_dist, vert_distances, elevations, is_civil3d, base_elevations,
      base_df, vert_df, cumulative_dist, summary_df>>

\* if 'current_file' not in session_data: return error, 400
VisualizeNoFile ==
    /\ pc = "request"
    /\ "current_file" \notin DOMAIN session_data
    /\ response' = Rejected("No file uploaded")
    /\ pc' = "responded"
    /\ UNCHANGED <<Locals, session_data, alignment_id, upload_folder,
                   output_folder>>

\* visualizer = AlignmentVisualizer(filepath)
VisualizeOpen ==
    /\ pc = "request"
    /\ "current_file" \in DOMAIN session_data
    /\ upload_folder[session_data.current_file].ifc
    /\ pc' = "lookup"
    /\ UNCHANGED <<Locals, session_data, alignment_id, upload_folder,
                   output_folder, response>>

\* int(alignment_id) raises ValueError (line 24).
LookupInvalidLiteral ==
    /\ pc = "lookup"
    /\ ~IsIntLiteral(alignment_id)
    /\ Raise("invalid literal for int() with base 10")
    /\ UNCHANGED <<Locals, session_data, alignment_id, upload_folder,
                   output_folder>>

\* by_id finds no instance: the library raises RuntimeError (line 24) ...
LookupMissingRaises ==
    /\ pc = "lookup"
    /\ IsIntLiteral(alignment_id)
    /\ ById(IfcFile, IntValue(alignment_id)) = {}
    /\ Raise("Instance not found")
    /\ UNCHANGED <<Locals, session_data, alignment_id, upload_folder,
                   output_folder>>

\* ... or hands back None, which line 26 rejects.
LookupMissingNone ==
    /\ pc = "lookup"
    /\ IsIntLiteral(alignment_id)
    /\ ById(IfcFile, IntValue(alignment_id)) = {}
    /\ Raise("Alignment not found or invalid")
    /\ UNCHANGED <<Locals, session_data, alignment_id, upload_folder,
                   output_folder>>

\* not alignment.is_a('IfcAlignment') (line 26)
LookupNotAlignment ==
    /\ pc = "lookup"
    /\ IsIntLiteral(alignment_id)
    /\ \E i \in ById(IfcFile, IntValue(alignment_id)) :
           IfcFile[i].type # "IfcAlignment"
    /\ Raise("Alignment not found or invalid")
    /\ UNCHANGED <<Locals, session_data, alignment_id, upload_folder,
                   output_folder>>

\* The id is that of an IfcAlignment.
LookupFound ==
    /\ pc = "lookup"
    /\ IsIntLiteral(alignment_id)
    /\ \E i \in ById(IfcFile, IntValue(alignment_id)) :
           /\ IfcFile[i].type = "IfcAlignment"
           /\ alignment' = IfcFile[i]
    /\ pc' = "representations"
    /\ UNCHANGED <<base_curve, gradient_curve, seg_idx, all_points, distances,
                   current_dist, vert_distances, elevations, is_civil3d,
                   base_elevations, base_df, vert_df, cumulative_dist,
                   summary_df, session_data, alignment_id, upload_folder,
                   output_folder, response>>

\* alignment.Representation is None: .Representations raises AttributeError
\* (line 33).
RepresentationAbsent ==
    /\ pc = "representations"
    /\ ~alignment.has_representation
    /\ Raise("'NoneType' object has no attribute 'Representations'")
    /\ UNCHANGED <<Locals, session_data, alignment_id, upload_folder,
                   output_folder>>

\* if not base_rep or not gradient_rep: raise ValueError (lines 39-40)
CurveMissing ==
    /\ pc = "representations"
    /\ alignment.has_representation
    /\ \/ LastOfType(alignment.Representations, "Curve2D") = 0
       \/ LastOfType(alignment.Representations, "Curve3D") = 0
    /\ Raise("Alignment missing base or gradient curve")
    /\ UNCHANGED <<Locals, session_data, alignment_id, upload_folder,
                   output_folder>>

\* Items[0] of a representation without items raises IndexError
\* (lines 42-43).
ItemsEmpty ==
    /\ pc = "representations"
    /\ alignment.has_representation
    /\ LET b == LastOfType(alignment.Representations, "Curve2D")
           g == LastOfType(alignment.Representations, "Curve3D")
       IN /\ b # 0
          /\ g # 0
          /\ \/ alignment.Representations[b].Items = <<>>
             \/ alignment.Representations[g].Items = <<>>
    /\ Raise("tuple index out of range")
    /\ UNCHANGED <<Locals, session_data, alignment_id, upload_folder,
                   output_folder>>

\* base_curve = base_rep.Items[0]; gradient_curve = gradient_rep.Items[0];
\* then _evaluate_base_curve starts (line 46).
RepresentationsFound ==
    /\ pc = "representations"
    /\ alignment.has_representation
    /\ LET b == LastOfType(alignment.Representations, "Curve2D")
           g == LastOfType(alignment.Representations, "Curve3D")
       IN /\ b # 0
          /\ g # 0
          /\ alignment.Representations[b].Items # <<>>
          /\ alignment.Representations[g].Items # <<>>
          /\ base_curve' = alignment.Representations[b].Items[1]
          /\ gradient_curve' = alignment.Representations[g].Items[1]
    /\ pc' = "base"
    /\ seg_idx' = 1
    /\ all_points' = <<>>
    /\ distances' = <<>>
    /\ current_dist' = 0
    /\ UNCHANGED <<alignment, vert_distances, elevations, is_civil3d,
                   base_elevations, base_df, vert_df, cumulative_dist,
                   summary_df, session_data, alignment_id, upload_folder,
                   output_folder, response>>

NextLookup ==
    \/ VisualizeNoFile
    \/ VisualizeOpen
    \/ LookupInvalidLiteral
    \/ LookupMissingRaises
    \/ LookupMissingNone
    \/ LookupNotAlignment
    \/ LookupFound
    \/ RepresentationAbsent
    \/ CurveMissing
    \/ ItemsEmpty
    \/ RepresentationsFound

---------------------------------------------------------------------------
(* Actions of _evaluate_base_curve (lines 128-158), one per pass of the    *)
(* loop over composite_curve.Segments.                                     *)

InBaseLoop == pc = "base" /\ seg_idx <= Len(base_curve)

SetWalker(st) ==
    /\ all_points' = st.all_points
    /\ distances' = st.distances
    /\ current_dist' = st.current_dist

\* parent_curve.is_a('IfcLine')
BaseLine ==
    /\ InBaseLoop
    /\ base_curve[seg_idx].kind = "IfcLine"
    /\ SetWalker(WalkSegment(WalkerState, base_curve[seg_idx]))
    /\ seg_idx' = seg_idx + 1
    /\ UNCHANGED <<pc, session_data, alignment_id, alignment, base_curve,
                   gradient_curve, vert_distances, elevations, is_civil3d,
                   base_elevations, base_df, vert_df, cumulative_dist,
                   summary_df, upload_folder, output_folder, response>>

\* parent_curve.is_a('IfcCircle'), radius not 0
BaseCircle ==
    /\ InBaseLoop
    /\ base_curve[seg_idx].kind = "IfcCircle"
    /\ WalkSegment(WalkerState, base_curve[seg_idx]).err = ""
    /\ SetWalker(WalkSegment(WalkerState, base_curve[seg_idx]))
    /\ seg_idx' = seg_idx + 1
    /\ UNCHANGED <<pc, session_data, alignment_id, alignment, base_curve,
                   gradient_curve, vert_distances, elevations, is_civil3d,
                   base_elevations, base_df, vert_df, cumulative_dist,
                   summary_df, upload_folder, output_folder, response>>

\* parent_curve.is_a('IfcCircle'), radius 0: total_angle = length / radius
\* divides two Python floats and raises ZeroDivisionError (line 108).
BaseCircleZeroRadius ==
    /\ InBaseLoop
    /\ base_curve[seg_idx].kind = "IfcCircle"
    /\ WalkSegment(WalkerState, base_curve[seg_idx]).err # ""
    /\ Raise(WalkSegment(WalkerState, base_curve[seg_idx]).err)
    /\ UNCHANGED <<session_data, alignment_id, alignment, base_curve,
                   gradient_curve, seg_idx, all_points, distances,
                   current_dist, vert_distances, elevations, is_civil3d,
                   base_elevations, base_df, vert_df, cumulative_dist,
                   summary_df, upload_folder, output_folder>>

\* else: continue
BaseSkip ==
    /\ InBaseLoop
    /\ ~IsBaseKind(base_curve[seg_idx].kind)
    /\ SetWalker(WalkSegment(WalkerState, base_curve[seg_idx]))
    /\ seg_idx' = seg_idx + 1
    /\ UNCHANGED <<pc, session_data, alignment_id, alignment, base_curve,
                   gradient_curve, vert_distances, elevations, is_civil3d,
                   base_elevations, base_df, vert_df, cumulative_dist,
                   summary_df, upload_folder, output_folder, response>>

\* return np.array(all_points), np.array(distances); create_visualization
\* goes on to _evaluate_vertical_profile (line 47).
BaseDone ==
    /\ pc = "base"
    /\ seg_idx > Len(base_curve)
    /\ pc' = "vert"
    /\ seg_idx' = 1
    /\ vert_distances' = <<>>
    /\ elevations' = <<>>
    /\ is_civil3d' = <<>>
    /\ UNCHANGED <<session_data, alignment_id, alignment, base_curve,
                   gradient_curve, all_points, distances, current_dist,
                   base_elevations, base_df, vert_df, cumulative_dist,
                   summary_df, upload_folder, output_folder, response>>

NextBase ==
    \/ BaseLine
    \/ BaseCircle
    \/ BaseCircleZeroRadius
    \/ BaseSkip
    \/ BaseDone

---------------------------------------------------------------------------
(* Actions of _evaluate_vertical_profile (lines 160-204), one per pass of  *)
(* the loop over gradient_curve.Segments.                                  *)

InVertLoop == pc = "vert" /\ seg_idx <= Len(gradient_curve)

\* A pass that drops its first sample when samples precede it.
VertAppendDedup(r) ==
    /\ vert_distances' = vert_distances \o
           (IF vert_distances # <<>> /\ r.distances # <<>>
            THEN Tail(r.distances) ELSE r.distances)
    /\ elevations' = elevations \o
           (IF elevations # <<>> /\ r.elevations # <<>>
            THEN Tail(r.elevations) ELSE r.elevations)
    /\ is_civil3d' = Append(is_civil3d, r.is_civil3d)
    /\ seg_idx' = seg_idx + 1
    /\ UNCHANGED <<pc, session_data, alignment_id, alignment, base_curve,
                   gradient_curve, all_points, distances, current_dist,
                   base_elevations, base_df, vert_df, cumulative_dist,
                   summary_df, upload_folder, output_folder, response>>

\* The pass appends its samples and goes on to the next segment.
VertAppend(r) ==
    /\ vert_distances' = vert_distances \o r.distances
    /\ elevations' = elevations \o r.elevations
    /\ is_civil3d' = Append(is_civil3d, r.is_civil3d)
    /\ seg_idx' = seg_idx + 1
    /\ UNCHANGED <<pc, session_data, alignment_id, alignment, base_curve,
                   gradient_curve, all_points, distances, current_dist,
                   base_elevations, base_df, vert_df, cumulative_dist,
                   summary_df, upload_folder, output_folder, response>>

\* The pass raises.
VertRaise(r) ==
    /\ Raise(r.err)
    /\ UNCHANGED <<session_data, alignment_id, alignment, base_curve,
                   gradient_curve, seg_idx, all_points, distances,
                   current_dist, vert_distances, elevations, is_civil3d,
                   base_elevations, base_df, vert_df, cumulative_dist,
                   summary_df, upload_folder, output_folder>>

\* if length == 0: continue
VertZeroLength ==
    /\ InVertLoop
    /\ gradient_curve[seg_idx].length = 0
    /\ VertAppend(VerticalSegment(gradient_curve[seg_idx]))

\* parent_curve.is_a('IfcLine')
VertLine ==
    /\ InVertLoop
    /\ gradient_curve[seg_idx].length # 0
    /\ gradient_curve[seg_idx].kind = "IfcLine"
    /\ VerticalSegment(gradient_curve[seg_idx]).err = ""
    /\ VertAppend(VerticalSegment(gradient_curve[seg_idx]))

\* parent_curve.is_a('IfcLine') and placement.RefDirection is None:
\* placement.RefDirection.DirectionRatios raises AttributeError (line 183).
VertLineNoRefDirection ==
    /\ InVertLoop
    /\ gradient_curve[seg_idx].length # 0
    /\ gradient_curve[seg_idx].kind = "IfcLine"
    /\ VerticalSegment(gradient_curve[seg_idx]).err # ""
    /\ VertRaise(VerticalSegment(gradient_curve[seg_idx]))

\* parent_curve.is_a('IfcPolynomialCurve')
VertPolynomial ==
    /\ InVertLoop
    /\ gradient_curve[seg_idx].length # 0
    /\ gradient_curve[seg_idx].kind = "IfcPolynomialCurve"
    /\ VerticalSegment(gradient_curve[seg_idx]).err = ""
    /\ VertAppend(VerticalSegment(gradient_curve[seg_idx]))

\* parent_curve.is_a('IfcPolynomialCurve') without coefficients: coeffs[0]
\* raises (line 187).
VertPolynomialNoCoefficients ==
    /\ InVertLoop
    /\ gradient_curve[seg_idx].length # 0
    /\ gradient_curve[seg_idx].kind = "IfcPolynomialCurve"
    /\ VerticalSegment(gradient_curve[seg_idx]).err # ""
    /\ VertRaise(VerticalSegment(gradient_curve[seg_idx]))

\* A parent curve of another kind: neither branch is taken.
VertOther ==
    /\ InVertLoop
    /\ gradient_curve[seg_idx].length # 0
    /\ gradient_curve[seg_idx].kind \notin {"IfcLine", "IfcPolynomialCurve"}
    /\ VertAppend(VerticalSegment(gradient_curve[seg_idx]))

\* return np.array(distances), np.array(elevations)
VertDone ==
    /\ pc = "vert"
    /\ seg_idx > Len(gradient_curve)
    /\ pc' = "compose"
    /\ seg_idx' = 1
    /\ UNCHANGED <<session_data, alignment_id, alignment, base_curve,
                   gradient_curve, all_points, distances, current_dist,
                   vert_distances, elevations, is_civil3d, base_elevations,
                   base_df, vert_df, cumulative_dist, summary_df,
                   upload_folder, output_folder, response>>

(* The 3D composer, create_visualization line 50. *)

\* base_elevations = np.interp(base_distances, vert_distances, elevations)
Compose ==
    /\ pc = "compose"
    /\ vert_distances # <<>>
    /\ base_elevations' = Interp(distances, vert_distances, elevations)
    /\ pc' = "tables"
    /\ UNCHANGED <<session_data, alignment_id, alignment, base_curve,
                   gradient_curve, seg_idx, all_points, distances,
                   current_dist, vert_distances, elevations, is_civil3d,
                   base_df, vert_df, cumulative_dist, summary_df,
                   upload_folder, output_folder, response>>

\* np.interp raises ValueError when xp is empty.
ComposeNoSamples ==
    /\ pc = "compose"
    /\ vert_distances = <<>>
    /\ Raise("array of sample points is empty")
    /\ UNCHANGED <<session_data, alignment_id, alignment, base_curve,
                   gradient_curve, seg_idx, all_points, distances,
                   current_dist, vert_distances, elevations, is_civil3d,
                   base_elevations, base_df, vert_df, cumulative_dist,
                   summary_df, upload_folder, output_folder>>

NextProfile ==
    \/ VertZeroLength
    \/ VertLine
    \/ VertLineNoRefDirection
    \/ VertPolynomial
    \/ VertPolynomialNoCoefficients
    \/ VertOther
    \/ VertDone
    \/ Compose
    \/ ComposeNoSamples

---------------------------------------------------------------------------
(* _create_analysis_tables (lines 206-303).  A formatted number is the     *)
(* integer of its last printed digit: Format2(v) stands for the string     *)
(* f"{v:.2f}" and counts hundredths, Format1(v) counts tenths.             *)

\* f"{v:.2f}"
Format2(v) == FloorDiv(v * 100 + Unit \div 2, Unit)

\* f"{v:.1f}"
Format1(v) == FloorDiv(v * 10 + Unit \div 2, Unit)

\* parent.is_a().replace('Ifc', '')
CurveType(kind) ==
    CASE kind = "IfcLine" -> "Line"
      [] kind = "IfcCircle" -> "Circle"
      [] kind = "IfcPolynomialCurve" -> "PolynomialCurve"
      [] kind = "IfcClothoid" -> "Clothoid"
      [] OTHER -> kind

\* The Details string: what it is made of.  what is "" for the empty string.
Details(what, pattern, numbers) ==
    [what |-> what, pattern |-> pattern, numbers |-> numbers]

\* One row of the base curve table (lines 211-225); idx is 0-based.
BaseRow(idx, segment) ==
    [Seg |-> idx,
     Type |-> CurveType(segment.kind),
     Length |-> Format2(segment.length),
     Details |-> IF segment.kind = "IfcCircle"
                 THEN Details("R=m", "", <<Format1(segment.radius)>>)
                 ELSE Details("", "", <<>>)]

\* A classification with non-strict comparisons.
IsCivil3dNonStrict(c0, c1) == Abs(c0) >= Unit \/ Abs(c1) >= Unit \div 1000

\* is_civil3d = (abs(c0) > 1.0 or abs(c1) > 0.001), line 246
TableIsCivil3d(c0, c1) == Abs(c0) > Unit \/ Abs(c1) > Unit \div 1000

\* extra of a vertical row (lines 239-257); a polynomial has coefficients.
VertDetails(segment) ==
    IF segment.kind = "IfcPolynomialCurve"
    THEN LET c0 == segment.coeffs[1]
             c1 == Coefficient(segment.coeffs, 1)
             c2 == Coefficient(segment.coeffs, 2)
             start_grad == c1 * 100
             end_grad == (c1 + Mul(2 * c2, segment.length)) * 100
         IN Details("pattern, %->%",
                    IF TableIsCivil3d(c0, c1) THEN "Civil3D" ELSE "IMX",
                    <<Format2(start_grad), Format2(end_grad)>>)
    ELSE IF segment.kind = "IfcLine" /\ segment.ref # <<>>
    THEN LET grad == IF segment.ref[1] # 0
                     THEN Div(segment.ref[2], segment.ref[1]) * 100
                     ELSE 0
         IN Details("%", "", <<Format2(grad)>>)
    ELSE Details("", "", <<>>)

\* A row whose Distance is the placement's distance-along.
VertRowAtPlacement(idx, segment, cumulative) ==
    [Seg |-> idx,
     Type |-> CurveType(segment.kind),
     Distance |-> Format2(segment.loc[1]),
     Length |-> Format2(segment.length),
     Elevation |-> Format2(segment.loc[2]),
     Details |-> VertDetails(segment)]

\* One row of the vertical table (lines 259-266); idx is 0-based.
VertRow(idx, segment, cumulative) ==
    [Seg |-> idx,
     Type |-> CurveType(segment.kind),
     Distance |-> Format2(cumulative),
     Length |-> Format2(segment.length),
     Elevation |-> Format2(segment.loc[2]),
     Details |-> VertDetails(segment)]

\* The base curve table (lines 209-227); then the vertical loop starts.
TablesBase ==
    /\ pc = "tables"
    /\ base_df' = [i \in 1..Len(base_curve) |-> BaseRow(i - 1, base_curve[i])]
    /\ vert_df' = <<>>
    /\ cumulative_dist' = 0
    /\ seg_idx' = 1
    /\ pc' = "tables_vert"
    /\ UNCHANGED <<session_data, alignment_id, alignment, base_curve,
                   gradient_curve, all_points, distances, current_dist,
                   vert_distances, elevations, is_civil3d, base_elevations,
                   summary_df, upload_folder, output_folder, response>>

InTableLoop == pc = "tables_vert" /\ seg_idx <= Len(gradient_curve)

\* One pass of the loop over gradient_curve.Segments (lines 233-268).
TablesVertRow ==
    /\ InTableLoop
    /\ ~(gradient_curve[seg_idx].kind = "IfcPolynomialCurve"
         /\ gradient_curve[seg_idx].coeffs = <<>>)
    /\ vert_df' = Append(vert_df, VertRow(seg_idx - 1, gradient_curve[seg_idx],
                                          cumulative_dist))
    /\ cumulative_dist' = cumulative_dist + gradient_curve[seg_idx].length
    /\ seg_idx' = seg_idx + 1
    /\ UNCHANGED <<pc, session_data, alignment_id, alignment, base_curve,
                   gradient_curve, all_points, distances, current_dist,
                   vert_distances, elevations, is_civil3d, base_elevations,
                   base_df, summary_df, upload_folder, output_folder,
                   response>>

\* A polynomial without coefficients: coeffs[0] raises (line 242).
TablesVertRowNoCoefficients ==
    /\ InTableLoop
    /\ gradient_curve[seg_idx].kind = "IfcPolynomialCurve"
    /\ gradient_curve[seg_idx].coeffs = <<>>
    /\ Raise("tuple index out of range")
    /\ UNCHANGED <<session_data, alignment_id, alignment, base_curve,
                   gradient_curve, seg_idx, all_points, distances,
                   current_dist, vert_distances, elevations, is_civil3d,
                   base_elevations, base_df, vert_df, cumulative_dist,
                   summary_df, upload_folder, output_folder>>

\* The summary table (lines 272-301) and the return (line 303).
TablesSummary ==
    /\ pc = "tables_vert"
    /\ seg_idx > Len(gradient_curve)
    /\ LET polynomial_count ==
               Cardinality({i \in 1..Len(gradient_curve) :
                               gradient_curve[i].kind = "IfcPolynomialCurve"})
       IN summary_df' =
              [Name |-> IF alignment.Name # <<>> THEN alignment.Name
                        ELSE <<"#", alignment.id>>,
               StepId |-> alignment.id,
               GlobalId |-> alignment.GlobalId,
               Type |-> alignment.PredefinedType,
               BaseSegments |-> Len(base_curve),
               VerticalSegments |-> Len(gradient_curve),
               PolynomialCurves |-> polynomial_count,
               TotalLength |-> Format2(cumulative_dist),
               StartElevation |-> IF Len(vert_df) > 0
                                  THEN <<vert_df[1].Elevation>> ELSE <<>>,
               PatternDetected |-> IF polynomial_count > 0 THEN "Civil3D"
                                   ELSE "IMX/None"]
    /\ pc' = "figure"
    /\ UNCHANGED <<session_data, alignment_id, alignment, base_curve,
                   gradient_curve, seg_idx, all_points, distances,
                   current_dist, vert_distances, elevations, is_civil3d,
                   base_elevations, base_df, vert_df, cumulative_dist,
                   upload_folder, output_folder, response>>

NextTables ==
    \/ TablesBase
    \/ TablesVertRow
    \/ TablesVertRowNoCoefficients
    \/ TablesSummary

---------------------------------------------------------------------------
(* The figure, the document and the response (visualizer.py:56-75,         *)
(* app.py:92-98).                                                          *)

\* str.replace(old, new) on a sequence of characters
Replace(str, old, new) ==
    [i \in 1..Len(str) |-> IF str[i] = old THEN new ELSE str[i]]

\* f"alignment_{alignment_id}_{name}.html" (line 65): its two variable parts
HtmlFilename ==
    [alignment_id |-> alignment_id,
     name |-> IF alignment.Name # <<>>
              THEN Replace(alignment.Name, " ", "_")
              ELSE <<"u", "n", "n", "a", "m", "e", "d">>]

\* The samples and tables _create_plotly_figure puts into the figure
\* (lines 331-415); base_points is not empty.
Figure ==
    [base_curve |-> all_points,
     vertical_profile |-> [x |-> vert_distances, y |-> elevations],
     polynomial |->
         [i \in 1..Len(gradient_curve) |->
             IF gradient_curve[i].kind = "IfcPolynomialCurve"
             THEN {j \in 1..Len(vert_distances) :
                      /\ vert_distances[j] >= gradient_curve[i].loc[1]
                      /\ vert_distances[j] <= gradient_curve[i].loc[1]
                                              + gradient_curve[i].length}
             ELSE {}],
     alignment_3d |-> [xy |-> all_points, z |-> base_elevations],
     summary |-> summary_df,
     base_segments |-> base_df,
     vertical_segments |-> vert_df]

\* base_points[:, 0] on an array without points raises IndexError
\* (line 333).
RenderNoBasePoints ==
    /\ pc = "figure"
    /\ all_points = <<>>
    /\ Raise("too many indices for array")
    /\ UNCHANGED <<Locals, session_data, alignment_id, upload_folder,
                   output_folder>>

\* fig = self._create_plotly_figure(...); fig.write_html(html_path)
Render ==
    /\ pc = "figure"
    /\ all_points # <<>>
    /\ output_folder' = {d \in output_folder : d.filename # HtmlFilename}
                        \cup {[filename |-> HtmlFilename, figure |-> Figure]}
    /\ pc' = "return"
    /\ UNCHANGED <<Locals, session_data, alignment_id, upload_folder,
                   response>>

\* return {...} (lines 69-75); return jsonify({'success': True, ...})
Return ==
    /\ pc = "return"
    /\ response' = [status |-> 200,
                    keys |-> {"success", "html_path", "summary",
                              "base_segments", "vertical_segments"},
                    error |-> "",
                    html_path |-> HtmlFilename,
                    summary |-> summary_df,
                    base_segments |-> base_df,
                    vertical_segments |-> vert_df]
    /\ pc' = "responded"
    /\ UNCHANGED <<Locals, session_data, alignment_id, upload_folder,
                   output_folder>>

NextRender ==
    \/ RenderNoBasePoints
    \/ Render
    \/ Return

---------------------------------------------------------------------------
(* The inputs the specifications draw from. *)

SeqsUpTo(S, n) == UNION {[1..k -> S] : k \in 0..n}

\* Base segments: lines (with and without RefDirection, one with a
\* RefDirection of length 2, one of length 0), arcs to the left and to the
\* right, an arc of radius 0 and a segment whose parent curve the walker
\* does not support.
BaseSegPool ==
    {Seg("IfcLine", <<0, 0>>, <<>>, 4900, 0, <<>>),
     Seg("IfcLine", <<4900, 0>>, <<0, Unit>>, 2450, 0, <<>>),
     Seg("IfcLine", <<4900, 0>>, <<2 * Unit, 0>>, 2450, 0, <<>>),
     Seg("IfcLine", <<1000, 1000>>, <<Unit, 0>>, 0, 0, <<>>),
     Seg("IfcCircle", <<4900, 0>>, <<>>, 3000, 2000, <<>>),
     Seg("IfcCircle", <<4900, 0>>, <<Unit, 0>>, -3000, 2000, <<>>),
     Seg("IfcCircle", <<0, 0>>, <<>>, 1000, 0, <<>>),
     Seg("IfcClothoid", <<4900, 0>>, <<>>, 1000, 0, <<>>)}

BaseCurves == SeqsUpTo(BaseSegPool, MaxBaseSegs)

NoEntity ==
    [id |-> 0, type |-> "None", Name |-> <<>>, GlobalId |-> "",
     PredefinedType |-> "", has_representation |-> FALSE,
     Representations |-> <<>>]

\* The locals of a request before create_visualization has set them.
InitLocals ==
    /\ alignment = NoEntity
    /\ seg_idx = 1
    /\ all_points = <<>>
    /\ distances = <<>>
    /\ current_dist = 0
    /\ vert_distances = <<>>
    /\ elevations = <<>>
    /\ is_civil3d = <<>>
    /\ base_elevations = <<>>
    /\ base_df = <<>>
    /\ vert_df = <<>>
    /\ cumulative_dist = 0
    /\ summary_df = <<>>
    /\ output_folder = {}
    /\ response = NoResponse

---------------------------------------------------------------------------
(* SpecBase: _evaluate_base_curve applied to every curve of BaseCurves. *)

InitBase ==
    /\ pc = "base"
    /\ session_data = <<>>
    /\ upload_folder = <<>>
    /\ alignment_id = <<>>
    /\ base_curve \in BaseCurves
    /\ gradient_curve = <<>>
    /\ InitLocals

SpecBase == InitBase /\ [][NextBase]_vars

---------------------------------------------------------------------------
(* SpecProfile: _evaluate_vertical_profile applied to every curve of       *)
(* VertCurves, then the 3D composer and _create_analysis_tables, for the   *)
(* base curves of ProfileBaseCurves already walked.                        *)

\* Vertical segments: lines (a grade of 2%, one continuing it, one starting
\* with a jump in elevation, one of length 0, one running backwards, one
\* with a vertical RefDirection, one without RefDirection), polynomials on
\* either side of the thresholds on c0 and c1 (with one, two and three
\* coefficients, one without any) and a segment of another kind.
VertSegPool ==
    {Seg("IfcLine", <<0, 1000>>, <<Unit, 20>>, 4900, 0, <<>>),
     Seg("IfcLine", <<4900, 1098>>, <<Unit, -20>>, 2450, 0, <<>>),
     Seg("IfcLine", <<4900, 3000>>, <<Unit, 0>>, 2450, 0, <<>>),
     Seg("IfcLine", <<4900, 1098>>, <<Unit, 0>>, 0, 0, <<>>),
     Seg("IfcLine", <<4900, 1098>>, <<Unit, 10>>, -980, 0, <<>>),
     Seg("IfcLine", <<0, 1000>>, <<0, Unit>>, 980, 0, <<>>),
     Seg("IfcLine", <<0, 1000>>, <<>>, 980, 0, <<>>),
     Seg("IfcPolynomialCurve", <<4900, 1098>>, <<>>, 1980, 0,
         <<-Unit, -(Unit \div 1000), 2>>),
     Seg("IfcPolynomialCurve", <<0, 500>>, <<>>, 990, 0, <<Unit>>),
     Seg("IfcPolynomialCurve", <<0, 500>>, <<>>, 990, 0, <<Unit + 1>>),
     Seg("IfcPolynomialCurve", <<4900, 1098>>, <<>>, 1980, 0,
         <<0, -(Unit \div 1000 + 1), -20>>),
     Seg("IfcPolynomialCurve", <<4900, 1098>>, <<>>, 1980, 0, <<>>),
     Seg("IfcPolynomialCurve", <<4900, 1098>>, <<>>, 0, 0, <<>>),
     Seg("IfcCircle", <<4900, 1098>>, <<>>, 1000, 2000, <<>>)}

VertCurves == SeqsUpTo(VertSegPool, MaxVertSegs)

ProfileBaseCurves ==
    {<<Seg("IfcLine", <<0, 0>>, <<>>, 4900, 0, <<>>),
       Seg("IfcCircle", <<4900, 0>>, <<>>, 3000, 2000, <<>>)>>}

InitProfile ==
    /\ pc = "vert"
    /\ session_data = <<>>
    /\ upload_folder = <<>>
    /\ alignment_id = <<>>
    /\ alignment = NoEntity
    /\ base_curve \in ProfileBaseCurves
    /\ gradient_curve \in VertCurves
    /\ seg_idx = 1
    /\ all_points = EvaluateBaseCurve(base_curve).all_points
    /\ distances = EvaluateBaseCurve(base_curve).distances
    /\ current_dist = EvaluateBaseCurve(base_curve).current_dist
    /\ vert_distances = <<>>
    /\ elevations = <<>>
    /\ is_civil3d = <<>>
    /\ base_elevations = <<>>
    /\ base_df = <<>>
    /\ vert_df = <<>>
    /\ cumulative_dist = 0
    /\ summary_df = <<>>
    /\ output_folder = {}
    /\ response = NoResponse

SpecProfile == InitProfile /\ [][NextProfile \/ NextTables]_vars

---------------------------------------------------------------------------
(* Spec: one visualize request, from the handler's entry to its response,  *)
(* for every id of RequestIds against every file of Files.                 *)

\* The horizontal curves of the alignments: a line and an arc, a line and
\* an arc of radius 0, and a curve of one unsupported segment.
RequestBaseCurves ==
    {<<Seg("IfcLine", <<0, 0>>, <<>>, 4900, 0, <<>>),
       Seg("IfcCircle", <<4900, 0>>, <<>>, 3000, 2000, <<>>)>>,
     <<Seg("IfcLine", <<0, 0>>, <<>>, 4900, 0, <<>>),
       Seg("IfcCircle", <<4900, 0>>, <<>>, 1000, 0, <<>>)>>,
     <<Seg("IfcClothoid", <<0, 0>>, <<>>, 1000, 0, <<>>)>>}

\* The vertical curves of the alignments.
RequestVertCurves ==
    {<<Seg("IfcLine", <<0, 1000>>, <<Unit, 20>>, 4900, 0, <<>>),
       Seg("IfcPolynomialCurve", <<4900, 1098>>, <<>>, 1980, 0,
           <<0, -(Unit \div 1000 + 1), -20>>)>>,
     <<Seg("IfcLine", <<0, 1000>>, <<Unit, 20>>, 4900, 0, <<>>),
       Seg("IfcLine", <<4900, 3000>>, <<Unit, 0>>, 2450, 0, <<>>)>>,
     <<Seg("IfcLine", <<0, 1000>>, <<0, Unit>>, 980, 0, <<>>)>>,
     <<Seg("IfcLine", <<0, 1000>>, <<Unit, 20>>, 4900, 0, <<>>),
       Seg("IfcLine", <<4900, 1098>>, <<0, Unit>>, 980, 0, <<>>)>>,
     <<Seg("IfcLine", <<0, 1000>>, <<>>, 980, 0, <<>>)>>,
     <<Seg("IfcLine", <<4900, 1098>>, <<Unit, 0>>, 0, 0, <<>>)>>,
     <<Seg("IfcPolynomialCurve", <<4900, 1098>>, <<>>, 1980, 0, <<>>)>>,
     <<Seg("IfcLine", <<0, 1000>>, <<Unit, 20>>, 4900, 0, <<>>),
       Seg("IfcPolynomialCurve", <<4900, 1098>>, <<>>, 0, 0, <<>>)>>,
     <<Seg("IfcLine", <<0, 1000>>, <<Unit, 20>>, 4900, 0, <<>>),
       Seg("IfcCircle", <<4900, 1098>>, <<>>, 1000, 2000, <<>>)>>}

Rep(type, items) == [RepresentationType |-> type, Items |-> items]

\* The representation lists of the alignments: both curves, for every pair
\* of a horizontal and a vertical curve; the 2D curve only; the 3D curve
\* only; a representation of another type only; both curves, the 2D
\* representation without items; and none.
RepresentationLists ==
    {<<Rep("Curve2D", <<b>>), Rep("Curve3D", <<v>>)>> :
        b \in RequestBaseCurves, v \in RequestVertCurves}
    \cup {<<Rep("Curve2D", <<b>>)>> : b \in RequestBaseCurves}
    \cup {<<Rep("Curve3D", <<v>>)>> : v \in RequestVertCurves}
    \cup {<<Rep("Axis", <<>>)>>,
          <<Rep("Curve2D", <<>>), Rep("Curve3D", <<<<>>>>)>>,
          <<>>}

Names == {<<>>, <<"A", " ", "1">>}

\* The IfcAlignment entities: with a Representation holding one of the
\* lists, or without Representation.
Alignments ==
    {[id |-> 1, type |-> "IfcAlignment", Name |-> n,
      GlobalId |-> "1kTvXnbbzCWw8lcMd1dR4o", PredefinedType |-> "USERDEFINED",
      has_representation |-> h, Representations |-> r] :
        n \in Names,
        <<h, r>> \in {<<TRUE, l>> : l \in RepresentationLists}
                     \cup {<<FALSE, <<>>>>}}

Wall ==
    [id |-> 2, type |-> "IfcWall", Name |-> <<"W">>,
     GlobalId |-> "3cUkl32yn9qRSPvBJVyWw5", PredefinedType |-> "STANDARD",
     has_representation |-> FALSE, Representations |-> <<>>]

\* A file holds one alignment and one wall.
Files == {<<a, Wall>> : a \in Alignments}

\* The ids requested: the alignment's, with a leading zero, the wall's, one
\* of no entity, a negative one, and two that are not numbers.
RequestIds ==
    {<<"1">>, <<"0", "1">>, <<"2">>, <<"7">>, <<"-", "1">>,
     <<"a", "b", "c">>, <<"1", "x">>}

\* os.path.join(app.config['UPLOAD_FOLDER'], filename) (app.py:55)
FilePath(filename) == <<"uploads", filename>>

\* The session after the upload of file under name (app.py:62-64).
Uploaded(name, file) ==
    [current_file |-> FilePath(name), filename |-> name,
     alignments |-> GetAlignments(file)]

Init ==
    /\ pc = "request"
    /\ alignment_id \in RequestIds
    /\ \/ /\ session_data = <<>>
          /\ upload_folder = <<>>
       \/ \E file \in Files :
              /\ session_data = Uploaded(<<"a", ".", "i", "f", "c">>, file)
              /\ upload_folder =
                     [path \in {FilePath(<<"a", ".", "i", "f", "c">>)} |->
                         Stored(file)]
    /\ base_curve = <<>>
    /\ gradient_curve = <<>>
    /\ InitLocals

Next ==
    \/ NextLookup
    \/ NextBase
    \/ NextProfile
    \/ NextTables
    \/ NextRender

Spec == Init /\ [][Next]_vars

---------------------------------------------------------------------------
(* upload_file (app.py:38-74).  A file name is a sequence of characters;   *)
(* a request carries a file part (a name and a content) or none.           *)

LowerLetters ==
    <<"a", "b", "c", "d", "e", "f", "g", "h", "i", "j", "k", "l",
      "m", "n", "o", "p", "q", "r", "s", "t", "u", "v", "w", "x",
      "y", "z">>

UpperLetters ==
    <<"A", "B", "C", "D", "E", "F", "G", "H", "I", "J", "K", "L",
      "M", "N", "O", "P", "Q", "R", "S", "T", "U", "V", "W", "X",
      "Y", "Z">>

\* str.lower() of one character
LowerChar(c) ==
    IF \E k \in 1..Len(UpperLetters) : UpperLetters[k] = c
    THEN LowerLetters[CHOOSE k \in 1..Len(UpperLetters) : UpperLetters[k] = c]
    ELSE c

Lower(str) == [i \in 1..Len(str) |-> LowerChar(str[i])]

\* filename.rsplit('.', 1)[1]: what follows the last dot of a name with one
Extension(filename) ==
    LET dots == {i \in 1..Len(filename) : filename[i] = "."}
        last == CHOOSE i \in dots : \A k \in dots : k <= i
    IN SubSeq(filename, last + 1, Len(filename))

\* allowed_file (app.py:27-29); ALLOWED_EXTENSIONS is {'ifc'}
AllowedFile(filename) ==
    /\ \E i \in 1..Len(filename) : filename[i] = "."
    /\ Lower(Extension(filename)) \in {<<"i", "f", "c">>}

\* str.strip(chars), first the left end, then the right end
RECURSIVE StripLeft(_, _)
StripLeft(str, chars) ==
    IF str # <<>> /\ str[1] \in chars THEN StripLeft(Tail(str), chars)
    ELSE str

RECURSIVE StripRight(_, _)
StripRight(str, chars) ==
    IF str # <<>> /\ str[Len(str)] \in chars
    THEN StripRight(SubSeq(str, 1, Len(str) - 1), chars)
    ELSE str

Strip(str, chars) == StripRight(StripLeft(str, chars), chars)

\* The characters werkzeug's secure_filename keeps: [A-Za-z0-9_.-]
IsSafeChar(c) ==
    \/ \E k \in 1..Len(LowerLetters) : c \in {LowerLetters[k], UpperLetters[k]}
    \/ IsDigit(c)
    \/ c \in {"_", ".", "-"}

\* werkzeug.utils.secure_filename on an ASCII name: path separators become
\* blanks, the words are joined by "_" (the names drawn hold no run of
\* blanks), unsafe characters are dropped, dots and underscores are
\* stripped from both ends.
SecureFilename(filename) ==
    LET spaced == Replace(filename, "/", " ")
        joined == Replace(Strip(spaced, {" "}), " ", "_")
    IN Strip(SelectSeq(joined, IsSafeChar), {".", "_"})

\* file.save(filepath): the folder with content stored under path
Save(folder, path, content) ==
    [p \in DOMAIN folder \cup {path} |->
        IF p = path THEN content ELSE folder[p]]

\* jsonify({'error': str(e)}), 500 (app.py:73-74)
UploadError(msg) ==
    [NoResponse EXCEPT !.status = 500, !.keys = {"error"}, !.error = msg]

\* jsonify({'success': True, 'filename': ..., 'alignments': ...})
UploadSuccess(filename, alignments) ==
    [status |-> 200, keys |-> {"success", "filename", "alignments"},
     error |-> "", filename |-> filename, alignments |-> alignments]

---------------------------------------------------------------------------
(* SpecSession: upload and visualize requests handled one after the other. *)

\* The horizontal and the vertical curve of the alignment uploaded first.
SessionBaseCurve ==
    <<Seg("IfcLine", <<0, 0>>, <<>>, 4900, 0, <<>>),
      Seg("IfcCircle", <<4900, 0>>, <<>>, 3000, 2000, <<>>)>>

SessionVertCurve ==
    <<Seg("IfcLine", <<0, 1000>>, <<Unit, 20>>, 4900, 0, <<>>),
      Seg("IfcPolynomialCurve", <<4900, 1098>>, <<>>, 1980, 0,
          <<0, -(Unit \div 1000 + 1), -20>>)>>

\* The files a session starts from: named alignments with SessionBaseCurve
\* and any vertical curve, with any horizontal curve and SessionVertCurve,
\* with the 2D curve only, with a 2D representation without items, and
\* without Representation.
SessionFiles ==
    {f \in Files :
        /\ f[1].Name # <<>>
        /\ LET l == f[1].Representations
           IN \/ ~f[1].has_representation
              \/ l = <<Rep("Curve2D", <<SessionBaseCurve>>)>>
              \/ /\ Len(l) = 2
                 /\ \/ l[1].Items = <<>>
                    \/ l[1].Items = <<SessionBaseCurve>>
                    \/ l[2].Items = <<SessionVertCurve>>}

\* The contents uploaded during a session: two files ifcopenshell reads
\* (their alignments differ) and one it cannot open.
UploadContents ==
    {Stored(<<a, Wall>>) :
        a \in {b \in Alignments :
                  /\ b.Name # <<>>
                  /\ b.Representations
                       \in {<<Rep("Curve2D", <<SessionBaseCurve>>),
                              Rep("Curve3D", <<SessionVertCurve>>)>>,
                            <<Rep("Curve2D", <<SessionBaseCurve>>)>>}}}
    \cup {[ifc |-> FALSE, entities |-> <<>>]}

\* The names uploaded: two that are stored under a.ifc, one stored under
\* b.IFC, one with another extension, one without a dot, and the empty one.
UploadNames ==
    {<<"a", ".", "i", "f", "c">>,
     <<"/", "a", ".", "i", "f", "c">>,
     <<"b", ".", "I", "F", "C">>,
     <<"a", ".", "t", "x", "t">>,
     <<"i", "f", "c">>,
     <<>>}

\* The ids requested during a session.
SessionIds == {<<"1">>, <<"2">>, <<"7">>, <<"a", "b", "c">>}

\* A request arrives: the handler starts without locals and response.
Arrives ==
    /\ pc = "idle"
    /\ alignment_id = <<>>
    /\ response = NoResponse

\* if 'file' not in request.files (app.py:41-42)
UploadNoFile ==
    /\ Arrives
    /\ response' = Rejected("No file provided")
    /\ pc' = "responded"
    /\ UNCHANGED <<Locals, session_data, alignment_id, upload_folder,
                   output_folder>>

\* if file.filename == '' (app.py:46-47)
UploadNoName ==
    /\ Arrives
    /\ \E filename \in UploadNames, content \in UploadContents :
           /\ filename = <<>>
           /\ response' = Rejected("No file selected")
    /\ pc' = "responded"
    /\ UNCHANGED <<Locals, session_data, alignment_id, upload_folder,
                   output_folder>>

\* if not allowed_file(file.filename) (app.py:49-50)
UploadBadType ==
    /\ Arrives
    /\ \E filename \in UploadNames, content \in UploadContents :
           /\ filename # <<>>
           /\ ~AllowedFile(filename)
           /\ response' =
                  Rejected("Invalid file type. Only .ifc files are allowed")
    /\ pc' = "responded"
    /\ UNCHANGED <<Locals, session_data, alignment_id, upload_folder,
                   output_folder>>

\* file.save(filepath) stores the content, then IFCProcessor(filepath)
\* raises: ifcopenshell.open cannot read it (app.py:52-59, 73-74).
UploadFaulted ==
    /\ Arrives
    /\ \E filename \in UploadNames, content \in UploadContents :
           /\ filename # <<>>
           /\ AllowedFile(filename)
           /\ ~content.ifc
           /\ upload_folder' = Save(upload_folder,
                                    FilePath(SecureFilename(filename)),
                                    content)
           /\ response' = UploadError("unable to open file")
    /\ pc' = "responded"
    /\ UNCHANGED <<Locals, session_data, alignment_id, output_folder>>

\* The file is stored and processed, the session set (app.py:52-71).
UploadSucceeded ==
    /\ Arrives
    /\ \E filename \in UploadNames, content \in UploadContents :
           /\ filename # <<>>
           /\ AllowedFile(filename)
           /\ content.ifc
           /\ upload_folder' = Save(upload_folder,
                                    FilePath(SecureFilename(filename)),
                                    content)
           /\ session_data' = Uploaded(SecureFilename(filename),
                                       content.entities)
           /\ response' = UploadSuccess(SecureFilename(filename),
                                        GetAlignments(content.entities))
    /\ pc' = "responded"
    /\ UNCHANGED <<Locals, alignment_id, output_folder>>

\* GET /visualize/<alignment_id> arrives.
VisualizeRequest ==
    /\ Arrives
    /\ alignment_id' \in SessionIds
    /\ pc' = "request"
    /\ UNCHANGED <<Locals, session_data, upload_folder, output_folder,
                   response>>

\* AlignmentVisualizer(filepath): ifcopenshell.open cannot read the stored
\* file and raises (visualizer.py:19, app.py:87).
VisualizeOpenFails ==
    /\ pc = "request"
    /\ "current_file" \in DOMAIN session_data
    /\ ~upload_folder[session_data.current_file].ifc
    /\ Raise("unable to open file")
    /\ UNCHANGED <<Locals, session_data, alignment_id, upload_folder,
                   output_folder>>

\* The response is sent; the handler's locals are gone.
Responded ==
    /\ pc = "responded"
    /\ pc' = "idle"
    /\ alignment_id' = <<>>
    /\ alignment' = NoEntity
    /\ base_curve' = <<>>
    /\ gradient_curve' = <<>>
    /\ seg_idx' = 1
    /\ all_points' = <<>>
    /\ distances' = <<>>
    /\ current_dist' = 0
    /\ vert_distances' = <<>>
    /\ elevations' = <<>>
    /\ is_civil3d' = <<>>
    /\ base_elevations' = <<>>
    /\ base_df' = <<>>
    /\ vert_df' = <<>>
    /\ cumulative_dist' = 0
    /\ summary_df' = <<>>
    /\ response' = NoResponse
    /\ UNCHANGED <<session_data, upload_folder, output_folder>>

NextUpload ==
    \/ UploadNoFile
    \/ UploadNoName
    \/ UploadBadType
    \/ UploadFaulted
    \/ UploadSucceeded

\* The process after start-up (session_data = {}), or after one upload of
\* a file of SessionFiles as a.ifc.
InitSession ==
    /\ pc = "idle"
    /\ alignment_id = <<>>
    /\ \/ /\ session_data = <<>>
          /\ upload_folder = <<>>
       \/ \E file \in SessionFiles :
              /\ session_data = Uploaded(<<"a", ".", "i", "f", "c">>, file)
              /\ upload_folder =
                     [path \in {FilePath(<<"a", ".", "i", "f", "c">>)} |->
                         Stored(file)]
    /\ base_curve = <<>>
    /\ gradient_curve = <<>>
    /\ InitLocals

NextSession ==
    \/ NextUpload
    \/ VisualizeRequest
    \/ VisualizeOpenFails
    \/ Responded
    \/ Next

SpecSession == InitSession /\ [][NextSession]_vars

---------------------------------------------------------------------------
(* Claims about _evaluate_base_curve, checked under SpecBase. *)

\* The number of segments the loop has passed.
Walked ==
    IF pc \in {"base", "responded"} THEN seg_idx - 1 ELSE Len(base_curve)

IsLineOrCircle(segment) == segment.kind \in {"IfcLine", "IfcCircle"}

SamplesOf(segment) ==
    <<>> \o (IF segment.kind = "IfcLine" THEN EvaluateLineSegment(segment)
                                         ELSE EvaluateCircleSegment(segment))

\* C1: the cumulative distances returned by _evaluate_base_curve are as many
\* as the points, start at 0 and never decrease, for every sequence of base
\* segments (Line, Circle, unsupported kinds) and at every pass of the loop.
C1_DistancesMonotone ==
    /\ Len(distances) = Len(all_points)
    /\ Len(distances) > 0 => distances[1] = 0
    /\ \A i \in 1..(Len(distances) - 1) : distances[i] <= distances[i + 1]

\* A walk of a line, an unsupported segment and an arc has returned.
C1_Witness ==
    /\ pc = "vert"
    /\ Len(base_curve) = 3
    /\ base_curve[1].kind = "IfcLine"
    /\ base_curve[2].kind = "IfcClothoid"
    /\ base_curve[3].kind = "IfcCircle"
    /\ Len(distances) = 99
    /\ distances[99] > distances[50]

\* The points the claim expects of segments[1..k]: the samples of the
\* supported segments in order, every one but the first that is walked
\* without its first sample.  ByPosition takes "the first" as C2 states it,
\* the segment at sequence position 1; otherwise it is the first segment
\* that is a Line or a Circle.
RECURSIVE ExpectedPoints(_, _, _)
ExpectedPoints(segments, k, ByPosition) ==
    IF k = 0 THEN <<>>
    ELSE LET before == ExpectedPoints(segments, k - 1, ByPosition)
             first == IF ByPosition THEN k = 1
                      ELSE \A j \in 1..(k - 1) : ~IsLineOrCircle(segments[j])
         IN IF ~IsLineOrCircle(segments[k]) THEN before
            ELSE IF first THEN before \o SamplesOf(segments[k])
            ELSE before \o Tail(SamplesOf(segments[k]))

NumSupported(segments, k) ==
    Cardinality({j \in 1..k : IsLineOrCircle(segments[j])})

\* C2 as stated: the segment at position 1 contributes all its samples and
\* every segment at a later position its samples without the first.
C2_ByPosition ==
    all_points = ExpectedPoints(base_curve, Walked, TRUE)

\* C2 as amended: the first segment that is a Line or a Circle contributes
\* all its samples (also when unsupported segments precede it) and every
\* later Line or Circle its samples without the first; two supported
\* segments yield 99 points.
C2_FirstSupportedKeepsAll ==
    LET n == NumSupported(base_curve, Walked)
    IN /\ all_points = ExpectedPoints(base_curve, Walked, FALSE)
       /\ Len(all_points) = IF n = 0 THEN 0
                            ELSE NumPoints + (n - 1) * (NumPoints - 1)
       /\ n = 2 => Len(all_points) = 99

\* Two supported segments after an unsupported one have been walked.
C2_Witness ==
    /\ pc = "vert"
    /\ Len(base_curve) = 3
    /\ ~IsLineOrCircle(base_curve[1])
    /\ IsLineOrCircle(base_curve[2])
    /\ IsLineOrCircle(base_curve[3])
    /\ Len(all_points) = 99

\* C10: a segment that is neither Line nor Circle is skipped without an
\* error and leaves all_points, distances and current_dist as they were: at
\* every pass the walker's state is the one _evaluate_base_curve reaches on
\* the segments walked so far with the unsupported ones removed, and the
\* walk raises exactly when the walk of the supported segments raises.
C10_SkipLeavesWalkUnchanged ==
    LET supported == SelectSeq(SubSeq(base_curve, 1, Walked), IsLineOrCircle)
        ref == EvaluateBaseCurve(supported)
    IN /\ ref.err = ""
       /\ all_points = ref.all_points
       /\ distances = ref.distances
       /\ current_dist = ref.current_dist
       /\ pc = "vert" =>
              EvaluateBaseCurve(SelectSeq(base_curve, IsLineOrCircle)).err = ""
       /\ pc = "responded" =>
              EvaluateBaseCurve(SelectSeq(base_curve, IsLineOrCircle)).err # ""

\* A walk with an unsupported segment between two supported ones returned.
C10_Witness ==
    /\ pc = "vert"
    /\ Len(base_curve) = 3
    /\ IsLineOrCircle(base_curve[1])
    /\ ~IsLineOrCircle(base_curve[2])
    /\ IsLineOrCircle(base_curve[3])
    /\ Len(all_points) = 99
    /\ current_dist > 0

\* The last segment the walker has passed is a Line.
LineWalked ==
    /\ pc \in {"base", "vert"}
    /\ Walked >= 1
    /\ base_curve[Walked].kind = "IfcLine"

\* O + R(theta) . (L, 0) with theta = atan2(d.y, d.x): the point at
\* distance L from O in the direction of d, (cos, sin) being d / |d|.
RotatedEnd(segment) ==
    LET d == RefDirection(segment)
        norm == Hypot(d[1], d[2])
    IN <<segment.loc[1] + FloorDiv(segment.length * d[1], norm),
         segment.loc[2] + FloorDiv(segment.length * d[2], norm)>>

\* C11: the first sample of a Line segment is its placement origin O and
\* the last is O + R(theta) . (L, 0), theta being the angle of the
\* reference direction d: at distance |L| from O whatever the length of d
\* (d = (2, 0) gives O + (L, 0)); (0, 0) and (L, 0) for the identity
\* placement.
C11_LineIsRotationAndTranslation ==
    LineWalked =>
        /\ EvaluateLineSegment(base_curve[Walked])[1] = base_curve[Walked].loc
        /\ all_points[Len(all_points)] = RotatedEnd(base_curve[Walked])
        /\ Hypot(all_points[Len(all_points)][1] - base_curve[Walked].loc[1],
                 all_points[Len(all_points)][2] - base_curve[Walked].loc[2])
             = Abs(base_curve[Walked].length)

\* The Line of length 2.45 placed at (4.9, 0) with reference direction
\* (2, 0) has been walked: its last sample is (9.8, 0), at distance 4.9
\* from the origin of the placement.
C11_Witness ==
    /\ LineWalked
    /\ base_curve[Walked].ref = <<2 * Unit, 0>>
    /\ base_curve[Walked].length = 2450
    /\ all_points[Len(all_points)] = <<4900 + 2 * 2450, 0>>

---------------------------------------------------------------------------
(* Claims on the vertical profile, the composer and the tables            *)
(* (SpecProfile).                                                          *)

\* The vertical segments whose pass of _evaluate_vertical_profile is over.
Evaluated == IF pc = "vert" THEN seg_idx - 1 ELSE Len(gradient_curve)

\* The method has not raised.
Running == pc \in {"vert", "compose", "tables", "tables_vert", "figure"}

\* The number of samples the claim gives a segment.
ExpectedCount(segment) ==
    IF segment.length = 0 THEN 0
    ELSE IF segment.kind = "IfcLine" THEN 50
    ELSE IF segment.kind = "IfcPolynomialCurve" THEN 100
    ELSE 0

\* The number of samples of the first k segments.
RECURSIVE ExpectedOffset(_, _)
ExpectedOffset(segments, k) ==
    IF k = 0 THEN 0
    ELSE ExpectedOffset(segments, k - 1) + ExpectedCount(segments[k])

\* C9: the output of _evaluate_vertical_profile is the concatenation, in
\* segment order, of the segments' samples: none for a segment of length 0,
\* 50 for any other Line, 100 for any other Polynomial, nothing removed at
\* a boundary; the distance of a sample is the placement's first coordinate
\* plus the local parameter; distances and elevations have equal length.
C9_ProfileIsConcatenation ==
    Running =>
        /\ Len(vert_distances) = Len(elevations)
        /\ Len(vert_distances) = ExpectedOffset(gradient_curve, Evaluated)
        /\ \A i \in 1..Evaluated :
               \A k \in 1..ExpectedCount(gradient_curve[i]) :
                   vert_distances[ExpectedOffset(gradient_curve, i - 1) + k]
                     = gradient_curve[i].loc[1]
                       + Linspace(gradient_curve[i].length,
                                  ExpectedCount(gradient_curve[i]), k)

\* A Line followed by a Polynomial starting where the Line ends: 150
\* samples, the boundary distance twice.
C9_Witness ==
    /\ pc = "compose"
    /\ Len(gradient_curve) = 2
    /\ gradient_curve[1].kind = "IfcLine"
    /\ gradient_curve[2].kind = "IfcPolynomialCurve"
    /\ Len(vert_distances) = 150
    /\ vert_distances[50] = vert_distances[51]
    /\ vert_distances[51] = gradient_curve[2].loc[1]

\* The vertical sample distances are non-decreasing.
NonDecreasing(xp) == \A j \in 1..(Len(xp) - 1) : xp[j] <= xp[j + 1]

\* The last sample at the distance of sample j.
LastAt(xp, j) ==
    CHOOSE k \in j..Len(xp) :
        /\ xp[k] = xp[j]
        /\ \A m \in (k + 1)..Len(xp) : xp[m] # xp[j]

\* The elevation np.interp gives at the distance d.
ElevationAt(d) == Interp(<<d>>, vert_distances, elevations)[1]

\* C7 as stated: interpolating at the distance of a vertical sample returns
\* that sample's elevation, for every sample, the two samples at a segment
\* boundary included.
C7_InterpReturnsSample ==
    pc = "tables" =>
        \A j \in 1..Len(vert_distances) :
            ElevationAt(vert_distances[j]) = elevations[j]

\* C7 as amended: when the vertical sample distances are non-decreasing,
\* interpolating at the distance of a vertical sample returns the elevation
\* of the last sample at that distance: the sample's own elevation unless a
\* later sample shares its distance, and at a boundary the elevation of the
\* first sample of the later segment.  The composer's output has that value
\* at every horizontal distance that is a vertical sample distance.
C7_InterpReturnsLastSampleAtDistance ==
    (pc = "tables" /\ NonDecreasing(vert_distances)) =>
        /\ \A j \in 1..Len(vert_distances) :
               ElevationAt(vert_distances[j])
                 = elevations[LastAt(vert_distances, j)]
        /\ \A i \in 1..Len(distances) :
               \A j \in 1..Len(vert_distances) :
                   distances[i] = vert_distances[j] =>
                       base_elevations[i]
                         = elevations[LastAt(vert_distances, j)]

\* The composer has run on two segments meeting at one distance with
\* different elevations, and a horizontal sample lies at that distance.
C7_Witness ==
    /\ pc = "tables"
    /\ NonDecreasing(vert_distances)
    /\ Len(vert_distances) = 100
    /\ vert_distances[50] = vert_distances[51]
    /\ elevations[50] # elevations[51]
    /\ \E i \in 1..Len(distances) :
           /\ distances[i] = vert_distances[50]
           /\ base_elevations[i] = elevations[51]

\* The claim's classification of a polynomial segment: absolute exactly
\* when |c0| > 1.0 or |c1| > 0.001, a missing c1 counting as 0.
IsAbsolute(segment) ==
    LET c0 == segment.coeffs[1]
        c1 == IF Len(segment.coeffs) >= 2 THEN segment.coeffs[2] ELSE 0
    IN \/ c0 > Unit
       \/ c0 < -Unit
       \/ c1 > Unit \div 1000
       \/ c1 < -(Unit \div 1000)

\* The polynomial segments among the first n that are classified.
Classified(n) ==
    {i \in 1..n : /\ gradient_curve[i].kind = "IfcPolynomialCurve"
                  /\ gradient_curve[i].coeffs # <<>>}

\* C3: the vertical profile evaluator and the vertical segment table both
\* classify a polynomial segment as Civil3D exactly when |c0| > 1.0 or
\* |c1| > 0.001 (strictly: c0 = 1.0 with c1 = 0 is IMX) and as IMX
\* otherwise, a missing c1 being 0; the two always agree.  The evaluator's
\* answer shows in the first elevation of the segment: c0 when absolute,
\* the placement's elevation plus c0 when offset.
C3_ClassificationAgrees ==
    Running =>
        /\ \A i \in Classified(Evaluated) :
               gradient_curve[i].length # 0 =>
                   /\ is_civil3d[i] = IF IsAbsolute(gradient_curve[i])
                                      THEN "True" ELSE "False"
                   /\ elevations[ExpectedOffset(gradient_curve, i - 1) + 1]
                        = IF IsAbsolute(gradient_curve[i])
                          THEN Fin(gradient_curve[i].coeffs[1])
                          ELSE Fin(gradient_curve[i].loc[2]
                                   + gradient_curve[i].coeffs[1])
        /\ \A i \in Classified(Len(vert_df)) :
               /\ vert_df[i].Details.pattern
                    = IF IsAbsolute(gradient_curve[i]) THEN "Civil3D"
                      ELSE "IMX"
               /\ gradient_curve[i].length # 0 =>
                      (is_civil3d[i] = "True"
                          <=> vert_df[i].Details.pattern = "Civil3D")
               /\ (gradient_curve[i].coeffs[1] = Unit
                   /\ Coefficient(gradient_curve[i].coeffs, 1) = 0)
                      => vert_df[i].Details.pattern = "IMX"

\* Both places have classified a polynomial with c0 = 1.0 and no c1 as IMX
\* and a polynomial over a threshold as Civil3D.
C3_Witness ==
    /\ pc = "figure"
    /\ Len(gradient_curve) = 2
    /\ gradient_curve[1].kind = "IfcPolynomialCurve"
    /\ gradient_curve[1].coeffs = <<Unit>>
    /\ gradient_curve[2].kind = "IfcPolynomialCurve"
    /\ is_civil3d = <<"False", "True">>
    /\ vert_df[1].Details.pattern = "IMX"
    /\ vert_df[2].Details.pattern = "Civil3D"

\* The sum of the raw lengths of the first k segments.
RECURSIVE SumLengths(_, _)
SumLengths(segments, k) ==
    IF k = 0 THEN 0 ELSE SumLengths(segments, k - 1) + segments[k].length

\* C8: in the vertical segment table the Distance of row i (0-based) is the
\* sum of the raw lengths of the vertical segments 0..i-1, every segment
\* counted, and the summary's Total Length is the sum over all vertical
\* segments, both printed with two decimals; neither is the walker's
\* cumulative distance or a placement origin.
C8_TableDistanceIsSumOfLengths ==
    /\ pc \in {"tables_vert", "figure"} =>
           \A i \in 1..Len(vert_df) :
               vert_df[i].Distance
                 = Format2(SumLengths(gradient_curve, i - 1))
    /\ pc = "figure" =>
           /\ Len(vert_df) = Len(gradient_curve)
           /\ summary_df.TotalLength
                = Format2(SumLengths(gradient_curve, Len(gradient_curve)))

\* The tables of a profile that starts with a segment of an unsupported
\* kind: the second row's Distance is that segment's length, not the
\* second placement's origin, and Total Length is not the walker's total.
C8_Witness ==
    /\ pc = "figure"
    /\ Len(gradient_curve) = 2
    /\ gradient_curve[1].kind = "IfcCircle"
    /\ gradient_curve[1].length > 0
    /\ vert_df[2].Distance = Format2(gradient_curve[1].length)
    /\ vert_df[2].Distance # Format2(gradient_curve[2].loc[1])
    /\ summary_df.TotalLength
         = Format2(gradient_curve[1].length + gradient_curve[2].length)
    /\ summary_df.TotalLength # Format2(current_dist)

\* The segment with an absent reference direction replaced by (1, 0).
Defaulted(segment) == [segment EXCEPT !.ref = RefDirection(segment)]

DefaultedCurve(segments) ==
    [i \in 1..Len(segments) |-> Defaulted(segments[i])]

\* C12: wherever the reference direction of a placement is used, a
\* placement without one behaves as a placement with (1, 0): the base
\* points, every pass of the vertical profile evaluator and every Details
\* entry of the vertical table are those of the curves with (1, 0) filled
\* in, and no request ends with the fault of reading the direction of an
\* absent RefDirection.
C12_AbsentRefDirectionIsIdentity ==
    /\ all_points = EvaluateBaseCurve(DefaultedCurve(base_curve)).all_points
    /\ pc = "responded" =>
           response.error
             # "'NoneType' object has no attribute 'DirectionRatios'"
    /\ Running =>
           \A i \in 1..Evaluated :
               VerticalSegment(gradient_curve[i])
                 = VerticalSegment(Defaulted(gradient_curve[i]))
    /\ \A i \in 1..Len(vert_df) :
           vert_df[i].Details = VertDetails(Defaulted(gradient_curve[i]))

\* The evaluation of a vertical Line without RefDirection has ended with
\* the fault; with (1, 0) the segment gives 50 samples of one elevation.
C12_Witness ==
    /\ pc = "responded"
    /\ seg_idx <= Len(gradient_curve)
    /\ gradient_curve[seg_idx].kind = "IfcLine"
    /\ gradient_curve[seg_idx].ref = <<>>
    /\ response.status = 500
    /\ response.error = "'NoneType' object has no attribute 'DirectionRatios'"
    /\ LET r == VerticalSegment(Defaulted(gradient_curve[seg_idx]))
       IN /\ r.err = ""
          /\ Len(r.elevations) = 50
          /\ \A j \in 1..50 :
                 r.elevations[j] = Fin(gradient_curve[seg_idx].loc[2])

---------------------------------------------------------------------------
(* Claims on the visualize request (Spec). *)

AllFinite(values) == \A j \in 1..Len(values) : IsFinite(values[j])

\* C4: for an alignment with a circular base segment of radius 0 or a
\* vertical Line whose reference direction has x component 0, the request
\* fails or substitutes a fallback: no document is rendered from, and no
\* successful response follows, a sample set holding NaN or an infinity.
C4_NoDivisionByZeroResult ==
    /\ \A d \in output_folder :
           /\ AllFinite(d.figure.vertical_profile.y)
           /\ AllFinite(d.figure.alignment_3d.z)
    /\ response.status = 200 =>
           /\ AllFinite(elevations)
           /\ AllFinite(base_elevations)

\* A request answered with success whose vertical curve is one Line with
\* reference direction (0, 1): its rendered elevations start with NaN and
\* go on with +Inf.  The arc of radius 0 ends the request with an error.
C4_Witness ==
    /\ pc = "responded"
    /\ response.status = 200
    /\ Len(gradient_curve) = 1
    /\ gradient_curve[1].kind = "IfcLine"
    /\ gradient_curve[1].ref = <<0, Unit>>
    /\ elevations[1] = NaN
    /\ elevations[2] = Inf(1)
    /\ \E d \in output_folder : d.figure.vertical_profile.y = elevations

\* The alignment found has no Curve3D representation.
LacksGradient ==
    /\ alignment.type = "IfcAlignment"
    /\ \/ ~alignment.has_representation
       \/ LastOfType(alignment.Representations, "Curve3D") = 0

\* C5: a request for an alignment without the 3D gradient representation
\* (no Representation at all, or a list without the 3D curve) ends with
\* the error "Alignment missing base or gradient curve".
C5_MissingGradientIsStructuralError ==
    (pc = "responded" /\ LacksGradient) =>
        response.error = "Alignment missing base or gradient curve"

\* A request for an alignment without Representation has ended with the
\* fault of reading an attribute of None.
C5_Witness ==
    /\ pc = "responded"
    /\ alignment.type = "IfcAlignment"
    /\ ~alignment.has_representation
    /\ response.status = 500
    /\ response.error = "'NoneType' object has no attribute 'Representations'"

\* The requested id is that of an IfcAlignment of the file.
Resolves ==
    /\ IsIntLiteral(alignment_id)
    /\ \E i \in ById(IfcFile, IntValue(alignment_id)) :
           IfcFile[i].type = "IfcAlignment"

\* C6: a request whose id does not resolve to an alignment (no such
\* entity, an entity of another type, or an id that is not a number) ends
\* with the error "not found or invalid"; a failing request writes no
\* document and returns no summary and no segment table.
C6_UnresolvedIdIsNotFound ==
    /\ (/\ pc = "responded"
        /\ "current_file" \in DOMAIN session_data
        /\ ~Resolves)
           => response.error = "Alignment not found or invalid"
    /\ (pc = "responded" /\ response.status # 200) =>
           /\ output_folder = {}
           /\ response.summary = <<>>
           /\ response.base_segments = <<>>
           /\ response.vertical_segments = <<>>

\* The request for the id "abc" has ended with int()'s own error.
C6_Witness ==
    /\ pc = "responded"
    /\ alignment_id = <<"a", "b", "c">>
    /\ response.status = 500
    /\ response.error = "invalid literal for int() with base 10"
    /\ output_folder = {}

---------------------------------------------------------------------------
(* Claims on sequences of requests (SpecSession). *)

\* The step is a successful upload: upload_file answers with success.
UploadSucceeds ==
    /\ pc = "idle"
    /\ pc' = "responded"
    /\ response'.status = 200

\* The session and the stored file it points to are those of one upload.
SessionOfOneUpload(session, folder) ==
    /\ "current_file" \in DOMAIN session
    /\ session.current_file = FilePath(session.filename)
    /\ session.current_file \in DOMAIN folder
    /\ folder[session.current_file].ifc
    /\ session.alignments
         = GetAlignments(folder[session.current_file].entities)

\* The step leaves the session data and the stored content that a
\* visualize request reads as they are.
SessionUntouched ==
    /\ session_data' = session_data
    /\ "current_file" \in DOMAIN session_data =>
           /\ session_data.current_file \in DOMAIN upload_folder'
           /\ upload_folder'[session_data.current_file]
                = upload_folder[session_data.current_file]

\* C13: in every sequence of requests handled one after the other, a
\* visualize request before any successful upload is rejected with "No
\* file uploaded"; a successful upload sets current_file, filename and
\* alignments to the values of that one upload and of the content it
\* stored; every other step (an upload that is rejected or fails, every
\* step of a visualize request) changes neither the session data nor the
\* stored content a later visualize request reads, which so is the content
\* of the most recent successful upload.
C13_SessionFollowsLastSuccessfulUpload ==
    [][/\ (pc = "request" /\ "current_file" \notin DOMAIN session_data) =>
              /\ pc' = "responded"
              /\ response' = Rejected("No file uploaded")
       /\ IF UploadSucceeds
          THEN SessionOfOneUpload(session_data', upload_folder')
          ELSE SessionUntouched]_vars

\* After a successful upload of a.ifc, an upload of an unreadable file
\* under the same name has failed and replaced the stored content: the
\* visualize request that follows ends in the fault of opening it, while
\* the session still lists the alignment of the first upload.
C13_Witness ==
    /\ pc = "responded"
    /\ alignment_id = <<"1">>
    /\ "current_file" \in DOMAIN session_data
    /\ Len(session_data.alignments) = 1
    /\ session_data.alignments[1].is_complete
    /\ ~upload_folder[session_data.current_file].ifc
    /\ response.status = 500
    /\ response.error = "unable to open file"

=============================================================================
